---- MODULE Spec2Model ----
(***************************************************************************)
(* A model of pocketing/polygons.py: offset_graph, closest_node,           *)
(* interpolate and cuttable.                                               *)
(*                                                                         *)
(* The geometry kernel (shapely), the nearest-neighbour index (scipy) and  *)
(* the resampler (trimesh) are libraries outside the repository.  They are *)
(* modelled on a small raster: a geometry is a set of unit cells <<x, y>>, *)
(* a polygon is a shell (a filled outline) with hole cells, its area is    *)
(* the number of cells of shell minus holes, a negative buffer is an       *)
(* erosion and a positive buffer a dilation with a square structuring      *)
(* element.  What the repository's own code does with the results of       *)
(* those calls is modelled statement by statement.                         *)
(***************************************************************************)
EXTENDS Integers, Sequences, FiniteSets, TLC

\* ------------------------------------------------------------------ bounds
GridW == 7
GridH == 3
MaxStep == 1
MaxMinArea == 2
NumNodes == 2
MaxOptions == 3
MaxRadius == 1
MaxRing == 1
MaxCount == 4

VARIABLES fn, pc, args, g, queue, offsets, distance, ret, exc

vars == <<fn, pc, args, g, queue, offsets, distance, ret, exc>>

\* ------------------------------------------------------- raster geometry
Cells == (0 .. GridW - 1) \X (0 .. GridH - 1)

Abs(n) == IF n < 0 THEN -n ELSE n

CellIndex(c) == c[2] * GridW + c[1]

MinCell(S) == CHOOSE c \in S : \A d \in S : CellIndex(c) <= CellIndex(d)

\* cells sharing an edge
Adjacent(c, d) == Abs(c[1] - d[1]) + Abs(c[2] - d[2]) = 1

RECURSIVE Flood(_, _, _)
Flood(frontier, seen, S) ==
    IF frontier = {} THEN seen
    ELSE LET nxt == {c \in S \ seen : \E f \in frontier : Adjacent(f, c)}
         IN  Flood(nxt, seen \cup nxt, S)

\* the connected parts of a geometry, in the order of their least cell
RECURSIVE Geoms(_)
Geoms(S) ==
    IF S = {} THEN <<>>
    ELSE LET comp == Flood({MinCell(S)}, {MinCell(S)}, S)
         IN  <<comp>> \o Geoms(S \ comp)

Erode(S, r) ==
    {c \in S : \A dx \in -r .. r : \A dy \in -r .. r :
                    <<c[1] + dx, c[2] + dy>> \in S}

Dilate(S, r) ==
    {c \in Cells : \E s \in S : Abs(c[1] - s[1]) <= r /\ Abs(c[2] - s[2]) <= r}

\* shapely Polygon(shell=..., holes=...)
Polygon(shell, holes) == [shell |-> shell, holes |-> holes]

\* the point set of a polygon: its shell without its holes
Region(p) == p.shell \ p.holes

Area(S) == Cardinality(S)

\* geometry.buffer(d): d < 0 shrinks, d > 0 grows, d = 0 leaves the region
Buffer(S, d) == IF d < 0 THEN Erode(S, -d) ELSE Dilate(S, d)

\* the outer ring of a connected part, as the region it encloses: the part
\* with every cell that the part cuts off from the outside of the raster
Exterior(part) ==
    LET frame == ((-1 .. GridW) \X (-1 .. GridH)) \ part
        start == {c \in frame : c[1] = -1 \/ c[1] = GridW \/ c[2] = -1 \/ c[2] = GridH}
        outside == Flood(start, start, frame)
    IN  Cells \ outside

Rect(x0, x1, y0, y1) == (x0 .. x1) \X (y0 .. y1)

Rects ==
    {Rect(x0, x1, y0, y1) :
        <<x0, x1, y0, y1>> \in {q \in (0 .. GridW - 1) \X (0 .. GridW - 1)
                                       \X (0 .. GridH - 1) \X (0 .. GridH - 1) :
                                  q[1] <= q[2] /\ q[3] <= q[4]}}

Inner(S) == Erode(S, 1)

\* rectangles, rectangles with one hole cell strictly inside, and
\* rectangles narrowed to a one-cell neck in one inner column
PlainPolygons == {Polygon(r, {}) : r \in Rects}

HoledPolygons ==
    UNION {{Polygon(r, {h}) : h \in Inner(r)} : r \in Rects}

NeckedPolygons ==
    UNION {{Polygon(r \ {c \in r : c[1] = n[1] /\ c[2] # n[2]}, {}) :
                n \in Inner(r)} : r \in Rects}

InputPolygons == PlainPolygons \cup HoledPolygons \cup NeckedPolygons

\* ------------------------------------------------------------- hash
AdlerBase == 65521

\* polygon.wkb: the rings' cells in raster order, the shell first, each
\* cell as the bytes x + 1, y + 1, a 0 byte closing each ring list
RECURSIVE RingBytes(_, _)
RingBytes(S, i) ==
    IF i >= GridW * GridH THEN <<0>>
    ELSE LET c == <<i % GridW, i \div GridW>>
         IN  (IF c \in S THEN <<c[1] + 1, c[2] + 1>> ELSE <<>>) \o RingBytes(S, i + 1)

Wkb(p) == RingBytes(p.shell, 0) \o RingBytes(p.holes, 0)

RECURSIVE Adler32(_, _, _, _)
Adler32(bytes, i, a, b) ==
    IF i > Len(bytes) THEN b * 65536 + a
    ELSE LET a2 == (a + bytes[i]) % AdlerBase
         IN  Adler32(bytes, i + 1, a2, (b + a2) % AdlerBase)

Hash(p) == Adler32(Wkb(p), 1, 1, 0)

\* --------------------------------------------------------- networkx
EmptyGraph == [nodes |-> {}, edges |-> {}, polygon |-> <<>>]

\* g.add_node(n, polygon=p): the node with its attribute set or replaced
AddNode(gr, n, p) ==
    [gr EXCEPT !.nodes = @ \cup {n},
               !.polygon = [k \in (DOMAIN @) \cup {n} |-> IF k = n THEN p ELSE @[k]]]

\* g.add_edge(u, v): the edge, and both ends as nodes
AddEdge(gr, u, v) ==
    [gr EXCEPT !.nodes = @ \cup {u, v}, !.edges = @ \cup {<<u, v>>}]

\* ------------------------------------------------------ module globals
\* the names bound at module level: the imports of lines 7-15 and the
\* functions the module defines
\* the module with shapely's MultiPolygon imported as well
ModuleGlobalsWithMultiPolygon ==
    {"zlib", "trimesh", "collections", "np", "nx", "spatial", "Polygon",
     "MultiPoint", "MultiPolygon", "hash", "boundary_distance", "closest_node",
     "offset_graph", "interpolate", "cuttable"}

ModuleGlobals ==
    {"zlib", "trimesh", "collections", "np", "nx", "spatial", "Polygon",
     "MultiPoint", "hash", "boundary_distance", "closest_node",
     "offset_graph", "interpolate", "cuttable"}

NoRet == [none |-> TRUE]

\* ----------------------------------------------------- offset_graph
OffsetGraphArgs ==
    [polygon : InputPolygons, distance : -MaxStep .. MaxStep,
     min_area : 1 .. MaxMinArea]

\* lines 152-156 / 159-163: one surviving part becomes a child
AddChild(st, current, current_index, part) ==
    LET child == Polygon(Exterior(part), current.holes)
        child_index == Hash(child)
    IN  [g |-> AddNode(AddEdge(st.g, current_index, child_index), child_index, child),
         queue |-> Append(st.queue, child)]

RECURSIVE AddParts(_, _, _, _, _, _)
AddParts(st, current, current_index, parts, i, min_area) ==
    IF i > Len(parts) THEN st
    ELSE AddParts(IF Area(parts[i]) >= min_area
                      THEN AddChild(st, current, current_index, parts[i])
                      ELSE st,
                  current, current_index, parts, i + 1, min_area)

\* lines 133-139
OffsetGraphEnter ==
    /\ fn = "offset_graph" /\ pc = "call"
    /\ distance' = -Abs(args.distance)
    /\ g' = EmptyGraph
    /\ queue' = <<args.polygon>>
    /\ offsets' = <<>>
    /\ pc' = "loop"
    /\ UNCHANGED <<fn, args, ret, exc>>

\* lines 141-165: the loop test, and one iteration or the return
OffsetGraphLoop ==
    /\ fn = "offset_graph" /\ pc = "loop"
    /\ IF Len(queue) > 0
       THEN LET current == queue[Len(queue)]
                popped == SubSeq(queue, 1, Len(queue) - 1)
                current_index == Hash(current)
                g1 == AddNode(g, current_index, current)
                buffered == Buffer(Region(current), distance)
                parts == Geoms(buffered)
                st0 == [g |-> g1, queue |-> popped]
            IN  /\ offsets' = [k \in (DOMAIN offsets) \cup {current_index} |->
                                  IF k = current_index THEN current ELSE offsets[k]]
                /\ IF "MultiPolygon" \notin ModuleGlobals
                   THEN \* line 149 names MultiPolygon, which nothing binds
                        /\ g' = g1 /\ queue' = popped
                        /\ pc' = "raised" /\ exc' = "NameError"
                        /\ ret' = ret
                   ELSE LET st == IF Len(parts) >= 2
                                     THEN AddParts(st0, current, current_index,
                                                   parts, 1, args.min_area)
                                  ELSE IF Area(buffered) >= args.min_area
                                     THEN AddChild(st0, current, current_index, buffered)
                                  ELSE st0
                        IN  /\ g' = st.g /\ queue' = st.queue
                            /\ pc' = "loop" /\ exc' = exc /\ ret' = ret
       ELSE /\ ret' = [graph |-> g, offsets |-> offsets]
            /\ pc' = "returned"
            /\ UNCHANGED <<g, queue, offsets, exc>>
    /\ UNCHANGED <<fn, args, distance>>

\* ------------------------------------------------------ closest_node
\* polygon.centroid as the sums of the cell coordinates and the cell count;
\* the half cell that every cell centre adds cancels in every difference
RECURSIVE SumCoord(_, _)
SumCoord(S, k) ==
    IF S = {} THEN 0
    ELSE LET c == MinCell(S) IN c[k] + SumCoord(S \ {c}, k)

Centroid(p) ==
    [sx |-> SumCoord(Region(p), 1), sy |-> SumCoord(Region(p), 2),
     n |-> Area(Region(p))]

\* squared distance of two centroids times (o.n * c.n)^2
Dist2Num(o, c) ==
    (o.sx * c.n - c.sx * o.n) * (o.sx * c.n - c.sx * o.n)
      + (o.sy * c.n - c.sy * o.n) * (o.sy * c.n - c.sy * o.n)

\* centroid a is no farther from o than centroid b
NoFarther(o, a, b) == Dist2Num(o, a) * b.n * b.n <= Dist2Num(o, b) * a.n * a.n

\* tree.query(origin, k=1)[1]: the index of a nearest point; which one of
\* several at the same distance is the index's choice
Query(others, origin) ==
    {i \in 1 .. Len(others) :
        \A j \in 1 .. Len(others) : NoFarther(origin, others[i], others[j])}

\* every list holding each element of S once: list(set) fixes no order
ListsOf(S) ==
    {s \in [1 .. Cardinality(S) -> S] : \A i, j \in DOMAIN s : s[i] = s[j] => i = j}

Elems(s) == {s[i] : i \in DOMAIN s}

\* the candidates with node left in
DifferenceKeepingNode(node_options, node) == Elems(node_options)

\* line 93
Difference(node_options, node) == Elems(node_options) \ {node}

\* the first candidate, whatever the index
ClosestFirst(node_options, index) == node_options[1]

\* line 102
Closest(node_options, index) == node_options[index]

NodePool == {Polygon(Rect(i, i, 0, 0), {}) : i \in 0 .. NumNodes - 1}
            \cup {Polygon(Rect(0, 1, 0, 0), {})}

GraphOf(polys) ==
    [nodes |-> {Hash(p) : p \in polys}, edges |-> {},
     polygon |-> [k \in {Hash(p) : p \in polys} |->
                      CHOOSE p \in polys : Hash(p) = k]]

NodeKeys == {Hash(p) : p \in NodePool}

SeqsUpTo(S, n) == UNION {[1 .. k -> S] : k \in 0 .. n}

\* has_node_attr: whether the installed networkx still has DiGraph.node
ClosestNodeArgs ==
    [g : {GraphOf(ps) : ps \in SUBSET NodePool}, node : NodeKeys,
     node_options : SeqsUpTo(NodeKeys, MaxOptions), has_node_attr : BOOLEAN]

Raise(name) ==
    /\ pc' = "raised" /\ exc' = name /\ ret' = ret

Return(value) ==
    /\ pc' = "returned" /\ exc' = exc /\ ret' = value

\* lines 90-103
ClosestNode ==
    /\ fn = "closest_node" /\ pc = "call"
    /\ IF Len(args.node_options) = 1
       THEN Return([closest |-> args.node_options[1]])
       ELSE LET remaining == Difference(args.node_options, args.node)
            IN  IF ~args.has_node_attr THEN Raise("AttributeError")
                ELSE IF args.node \notin args.g.nodes THEN Raise("KeyError")
                ELSE IF \E i \in remaining : i \notin args.g.nodes THEN Raise("KeyError")
                ELSE IF remaining = {} THEN Raise("ValueError")
                ELSE \E node_options \in ListsOf(remaining) :
                        LET origin == Centroid(args.g.polygon[args.node])
                            others == [i \in DOMAIN node_options |->
                                          Centroid(args.g.polygon[node_options[i]])]
                        IN  \E index \in Query(others, origin) :
                                Return([closest |-> Closest(node_options, index)])
    /\ UNCHANGED <<fn, args, g, queue, offsets, distance>>

\* ---------------------------------------------------------- cuttable
MinOf(S) == CHOOSE m \in S : \A k \in S : m <= k
MaxOf(S) == CHOOSE m \in S : \A k \in S : m >= k

\* the convex hull of a region; for the input family (rectangles, whole or
\* narrowed to a neck) it is the bounding rectangle
ConvexHull(S) ==
    IF S = {} THEN {}
    ELSE Rect(MinOf({c[1] : c \in S}), MaxOf({c[1] : c \in S}),
              MinOf({c[2] : c \in S}), MaxOf({c[2] : c \in S}))

\* polygon.exterior as a line: the cells of the shell on its outline
ExteriorLine(p) ==
    {c \in p.shell : \E dx \in -1 .. 1 : \E dy \in -1 .. 1 :
                        <<c[1] + dx, c[2] + dy>> \notin p.shell}

\* line.buffer(radius): a line has no area of its own
LineBuffer(line, radius) == IF radius = 0 THEN {} ELSE Dilate(line, radius)

\* constraint.intersects(convex.buffer(-.001)): the margin takes away the
\* contact along an edge or at a corner, what is left is a shared cell
IntersectsShrunk(constraint, convex) == Region(constraint) \cap Region(convex) # {}

\* lines 250-251
Convexify(polygon) == Polygon(ConvexHull(polygon.shell), polygon.holes)

\* lines 257-260
WorkingShape(polygon, constraint) ==
    IF IntersectsShrunk(constraint, Convexify(polygon)) THEN polygon
    ELSE Convexify(polygon)

\* the padded outline alone, without the union with the working shape
ConstrainedBufferNoUnion(current, radius, constraint) ==
    LineBuffer(ExteriorLine(current) \ Buffer(Region(constraint), radius), radius)

\* lines 264-265
ConstrainedBuffer(current, radius, constraint) ==
    LET line == ExteriorLine(current) \ Buffer(Region(constraint), radius)
    IN  LineBuffer(line, radius) \cup Region(current)

CuttablePolygons ==
    NeckedPolygons \cup HoledPolygons
      \cup {Polygon(r, {}) : r \in {q \in Rects : \E c \in q : c[2] = 0}}

ConstraintPolygons == {Polygon({c}, {}) : c \in Cells}

\* constraint: {} is None, {p} is the polygon p; debug is left False
CuttableArgs ==
    [polygon : CuttablePolygons, radius : 0 .. MaxRadius,
     constraint : {{}} \cup {{p} : p \in ConstraintPolygons}]

\* lines 249-273
Cuttable ==
    /\ fn = "cuttable" /\ pc = "call"
    /\ IF args.constraint = {}
       THEN Return([polygon |-> Convexify(args.polygon)])
       ELSE LET constraint == CHOOSE p \in args.constraint : TRUE
                current == WorkingShape(args.polygon, constraint)
            IN  Return([geometry |->
                           ConstrainedBuffer(current, args.radius, constraint)])
    /\ UNCHANGED <<fn, args, g, queue, offsets, distance>>

\* -------------------------------------------------------- interpolate
\* a point is <<x, y>>; a resampled path carries the common denominator of
\* its coordinates, so that every position stays an integer
Pt(x, y) == <<x, y>>

\* polygon.exterior of a rectangle of cells: the closed ring through its
\* four corners, walked from the least corner, counter-clockwise or not
ExteriorRing(shell, ccw) ==
    LET x0 == MinOf({q[1] : q \in shell})
        y0 == MinOf({q[2] : q \in shell})
    IN  [x0 |-> x0, y0 |-> y0,
         w |-> MaxOf({q[1] : q \in shell}) - x0 + 1,
         h |-> MaxOf({q[2] : q \in shell}) - y0 + 1, ccw |-> ccw]

RingLength(ring) == 2 * (ring.w + ring.h)

\* the point at arc length u / c along the ring, its coordinates times c
RingPoint(ring, u, c) ==
    LET x0 == ring.x0
        y0 == ring.y0
        w == ring.w
        h == ring.h
        v == IF ring.ccw THEN u ELSE 2 * (w + h) * c - u
    IN  IF v <= w * c THEN Pt(x0 * c + v, y0 * c)
        ELSE IF v <= (w + h) * c THEN Pt((x0 + w) * c, y0 * c + (v - w * c))
        ELSE IF v <= (2 * w + h) * c
            THEN Pt((x0 + w) * c - (v - (w + h) * c), (y0 + h) * c)
        ELSE Pt(x0 * c, (y0 + h) * c - (v - (2 * w + h) * c))

\* trimesh resample_path: count samples np.linspace(0, length, count)
\* along the ring; count is what the library makes of step
ResamplePath(ring, count) ==
    LET c == IF count > 1 THEN count - 1 ELSE 1
    IN  [pts |-> [i \in 1 .. count |-> RingPoint(ring, (i - 1) * RingLength(ring), c)],
         scale |-> c]

\* path[::-1]
Reversed(path) ==
    [path EXCEPT !.pts = [i \in DOMAIN @ |-> @[Len(@) + 1 - i]]]

\* twice the signed area under the shoelace formula, over successive points
RECURSIVE Shoelace(_, _)
Shoelace(pts, i) ==
    IF i >= Len(pts) THEN 0
    ELSE pts[i][1] * pts[i + 1][2] - pts[i + 1][1] * pts[i][2] + Shoelace(pts, i + 1)

\* trimesh.path.util.is_ccw
IsCcw(path) == Shoelace(path.pts, 1) > 0

\* squared distance of p (denominator cp) and q (denominator cq), times (cp * cq)^2
PointDist2(p, cp, q, cq) ==
    (p[1] * cq - q[1] * cp) * (p[1] * cq - q[1] * cp)
      + (p[2] * cq - q[2] * cp) * (p[2] * cq - q[2] * cp)

\* cKDTree(path).query(p)[1]: the index of a point of path nearest to p
Nearest(path, p, cp) ==
    {i \in DOMAIN path.pts :
        \A j \in DOMAIN path.pts :
            PointDist2(path.pts[i], path.scale, p, cp)
              <= PointDist2(path.pts[j], path.scale, p, cp)}

\* np.roll(ra, -index, axis=0), index counted from 1
Roll(path, index) ==
    [path EXCEPT !.pts = [k \in DOMAIN @ |-> @[((k - 1 + index - 1) % Len(@)) + 1]]]

\* np.linspace with endpoint=False: num equal steps that stop short of stop
LinspaceNoEndpoint(start, stop, num) ==
    [i \in 1 .. num |-> [num |-> start * num + (i - 1) * (stop - start), den |-> num]]

\* np.linspace(start, stop, num), its values as fractions: num - 1 equal
\* steps, the last value stop itself; a single value is start
Linspace(start, stop, num) ==
    LET div == IF num > 1 THEN num - 1 ELSE 1
    IN  [i \in 1 .. num |->
            [num |-> start * div + (i - 1) * (stop - start), den |-> div]]

\* line 220 for one index: a * (1 - w) + b * w, times a's, b's and w's denominators
Blend(pa, ca, pb, cb, w) ==
    Pt(pa[1] * (w.den - w.num) * cb + pb[1] * w.num * ca,
       pa[2] * (w.den - w.num) * cb + pb[2] * w.num * ca)

\* rb[tree_b.query(ra)[1]]: for every index one of the nearest points
RECURSIVE Choices(_, _)
Choices(near, i) ==
    IF i > Len(near) THEN {<<>>}
    ELSE {<<p>> \o rest : p \in near[i], rest \in Choices(near, i + 1)}

InterpRects ==
    UNION {{Rect(o, x1, o, y1) : <<x1, y1>> \in (o .. MaxRing) \X (o .. MaxRing)} :
               o \in 0 .. 1}

\* start: {} is None, {p} is the point p; optimize: python -O, under which
\* an assert statement is not executed
InterpolateArgs ==
    [a : InterpRects, a_ccw : BOOLEAN,
     b : {r \in InterpRects : <<0, 0>> \notin r}, b_ccw : BOOLEAN,
     count_a : 1 .. MaxCount, count_b : 1 .. MaxCount,
     start : {{}, {Pt(MaxRing + 1, MaxRing + 1)}}, optimize : BOOLEAN]

\* lines 190-222
Interpolate ==
    /\ fn = "interpolate" /\ pc = "call"
    /\ LET ra0 == ResamplePath(ExteriorRing(args.a, args.a_ccw), args.count_a)
           ra1 == IF ~args.a_ccw THEN Reversed(ra0) ELSE ra0
       IN  IF ~args.optimize /\ ~IsCcw(ra1) THEN Raise("AssertionError")
           ELSE \E index \in IF args.start = {} THEN {1}
                             ELSE Nearest(ra1, CHOOSE p \in args.start : TRUE, 1) :
                LET ra == IF args.start = {} THEN ra1 ELSE Roll(ra1, index)
                    rb0 == ResamplePath(ExteriorRing(args.b, args.b_ccw), args.count_b)
                    rb == IF ~args.b_ccw THEN Reversed(rb0) ELSE rb0
                    weights == Linspace(0, 1, Len(ra.pts))
                    near == [i \in DOMAIN ra.pts |->
                                {rb.pts[j] : j \in Nearest(rb, ra.pts[i], ra.scale)}]
                IN  \E pb \in Choices(near, 1) :
                        Return([points |-> [i \in DOMAIN ra.pts |->
                                               Blend(ra.pts[i], ra.scale, pb[i],
                                                     rb.scale, weights[i])],
                                ra |-> ra, rb |-> rb, pb |-> pb,
                                weights |-> weights])
    /\ UNCHANGED <<fn, args, g, queue, offsets, distance>>

Init ==
    /\ fn \in {"offset_graph", "closest_node", "interpolate", "cuttable"}
    /\ pc = "call"
    /\ args \in CASE fn = "offset_graph" -> OffsetGraphArgs
                  [] fn = "closest_node" -> ClosestNodeArgs
                  [] fn = "interpolate" -> InterpolateArgs
                  [] fn = "cuttable" -> CuttableArgs
    /\ g = EmptyGraph
    /\ queue = <<>>
    /\ offsets = <<>>
    /\ distance = 0
    /\ ret = NoRet
    /\ exc = "none"

Next ==
    \/ OffsetGraphEnter
    \/ OffsetGraphLoop
    \/ ClosestNode
    \/ Interpolate
    \/ Cuttable

Spec == Init /\ [][Next]_vars

\* ---------------------------------------------------------------- claims
Root == Hash(args.polygon)

Successors(gr, S) == {e[2] : e \in {d \in gr.edges : d[1] \in S}}

RECURSIVE Descendants(_, _, _)
Descendants(gr, frontier, seen) ==
    LET nxt == Successors(gr, frontier)
    IN  IF nxt \subseteq seen THEN seen
        ELSE Descendants(gr, nxt \ seen, seen \cup nxt)

Acyclic(gr) == \A n \in gr.nodes : n \notin Descendants(gr, {n}, {})

Ended == pc \in {"returned", "raised"}

\* C1: for a nonzero step distance and min_area > 0 offset_graph
\* terminates by returning its graph and offsets map; it never ends by
\* raising.
C1_TerminatesByReturning ==
    (fn = "offset_graph" /\ args.distance # 0 /\ args.min_area > 0 /\ Ended)
        => pc = "returned"

\* C2: with a step distance of zero offset_graph fails at entry: it never
\* starts the loop, adds no node or edge and records no offset.
C2_ZeroStepRejectedAtEntry ==
    (fn = "offset_graph" /\ args.distance = 0 /\ pc # "call")
        => /\ pc = "raised"
           /\ g.nodes = {} /\ g.edges = {} /\ DOMAIN offsets = {}

SurvivingParts(p) ==
    LET parts == Geoms(Buffer(Region(p), -Abs(args.distance)))
    IN  {parts[i] : i \in {k \in DOMAIN parts : Area(parts[k]) >= args.min_area}}

\* C5: when offset_graph has ended, a node has no outgoing edge exactly
\* when the inward offset of its polygon has no part of area >= min_area,
\* and every such part has its edge, to a node that was processed.
C5_LeafIffNoSurvivingPart ==
    (fn = "offset_graph" /\ Ended)
        => \A n \in g.nodes :
              /\ (Successors(g, {n}) = {}) <=> (SurvivingParts(g.polygon[n]) = {})
              /\ \A part \in SurvivingParts(g.polygon[n]) :
                    LET child == Hash(Polygon(Exterior(part), g.polygon[n].holes))
                    IN  child \in Successors(g, {n}) /\ child \in DOMAIN offsets

\* C6 as stated: closest_node ends with an error whenever the candidate
\* list holds no element other than node, the list <<node>> included.
C6_ErrorWhenOnlyNode ==
    (fn = "closest_node" /\ Ended /\ Elems(args.node_options) \subseteq {args.node})
        => pc = "raised"

\* C6 amended: closest_node ends with an error whenever the candidate list
\* is not of length one and holds no element other than node (the empty
\* list, or node repeated); the list <<node>> returns node.
C6_ErrorWhenOnlyNodeUnlessSingle ==
    (fn = "closest_node" /\ Ended /\ Elems(args.node_options) \subseteq {args.node})
        => IF Len(args.node_options) = 1
           THEN pc = "returned" /\ ret.closest = args.node
           ELSE pc = "raised"

C6_Witness ==
    /\ fn = "closest_node" /\ pc = "raised" /\ exc = "ValueError"
    /\ Len(args.node_options) = 2
    /\ Elems(args.node_options) = {args.node}

\* C7: what closest_node returns is a member of the candidate list: the
\* only element of a one-element list, even node itself; of a longer list
\* a candidate other than node whose centroid is no farther from node's
\* centroid than that of any other candidate other than node.
C7_ReturnsNearestCandidate ==
    (fn = "closest_node" /\ pc = "returned")
        => /\ ret.closest \in Elems(args.node_options)
           /\ Len(args.node_options) = 1 => ret.closest = args.node_options[1]
           /\ Len(args.node_options) > 1 =>
                /\ ret.closest # args.node
                /\ \A c \in Elems(args.node_options) \ {args.node} :
                      NoFarther(Centroid(args.g.polygon[args.node]),
                                Centroid(args.g.polygon[ret.closest]),
                                Centroid(args.g.polygon[c]))

C7_Witness ==
    /\ fn = "closest_node" /\ pc = "returned"
    /\ Len(args.node_options) > 1
    /\ args.node \in Elems(args.node_options)
    /\ \E c \in Elems(args.node_options) \ {args.node} :
          /\ c # ret.closest
          /\ ~NoFarther(Centroid(args.g.polygon[args.node]),
                        Centroid(args.g.polygon[c]),
                        Centroid(args.g.polygon[ret.closest]))

\* the blend of a returned path, for a path of at least lo points: weights
\* that never decrease, from 0 to 1, the first point the first point of
\* ra, the last point the point of rb matched to the last point of ra
BlendSpans(lo) ==
    (fn = "interpolate" /\ pc = "returned" /\ Len(ret.ra.pts) >= lo)
        => LET n == Len(ret.ra.pts)
               w == ret.weights
               ca == ret.ra.scale
               cb == ret.rb.scale
           IN  /\ Len(w) = n /\ Len(ret.points) = n
               /\ \A i \in 1 .. n - 1 : w[i].num * w[i + 1].den <= w[i + 1].num * w[i].den
               /\ w[1].num = 0
               /\ w[n].num = w[n].den
               /\ ret.points[1] = Pt(ret.ra.pts[1][1] * w[1].den * cb,
                                     ret.ra.pts[1][2] * w[1].den * cb)
               /\ ret.points[n] = Pt(ret.pb[n][1] * w[n].den * ca,
                                     ret.pb[n][2] * w[n].den * ca)
               /\ \E j \in DOMAIN ret.rb.pts :
                     /\ ret.pb[n] = ret.rb.pts[j]
                     /\ \A k \in DOMAIN ret.rb.pts :
                           PointDist2(ret.rb.pts[j], cb, ret.ra.pts[n], ca)
                             <= PointDist2(ret.rb.pts[k], cb, ret.ra.pts[n], ca)

C9_ContainsWorkingShape ==
    (fn = "cuttable" /\ pc = "returned")
        => LET hull == ConvexHull(args.polygon.shell)
           IN  IF args.constraint = {}
               THEN ret.polygon = [shell |-> hull, holes |-> args.polygon.holes]
               ELSE LET c == CHOOSE p \in args.constraint : TRUE
                    IN  IF (c.shell \ c.holes) \cap (hull \ args.polygon.holes) # {}
                        THEN (args.polygon.shell \ args.polygon.holes)
                                 \subseteq ret.geometry
                        ELSE (hull \ args.polygon.holes) \subseteq ret.geometry

C9_Witness ==
    /\ fn = "cuttable" /\ pc = "returned"
    /\ args.constraint # {}
    /\ args.radius > 0
    /\ LET c == CHOOSE p \in args.constraint : TRUE
       IN  /\ Region(c) \cap ConvexHull(args.polygon.shell) # {}
           /\ Region(c) \cap args.polygon.shell = {}
           /\ ~(ConvexHull(args.polygon.shell) \subseteq ret.geometry)
           /\ ret.geometry # Region(args.polygon)

====
